---- MODULE Spec2Model ----
(***************************************************************************)
(* Density-matrix circuit simulator (tensorcircuit/densitymatrix.py,       *)
(* class DMCircuit) as a state machine over an explicit tensor network.    *)
(*                                                                         *)
(* A node is a record [tensor, edges]: tensor maps every bit sequence of   *)
(* length rank to a complex number, edges[a] is the identity of the edge   *)
(* bound to axis a.  An edge identity that occurs once in the network is   *)
(* dangling, one that occurs twice is a contraction between the two axes.  *)
(* Complex numbers are Gaussian integers <<re, im>>, which every gate of   *)
(* the input sets below has as entries, so the arithmetic is exact.        *)
(* Axes and qubits are numbered from 0 as in the source; sequences are     *)
(* 1-based, so axis a of a node is edges[a + 1].                           *)
(***************************************************************************)
EXTENDS Integers, Sequences, FiniteSets, TLC

\* Largest number of qubits of a constructed circuit.
MaxQubits == 2

\* Largest number of apply_general_gate / apply_general_kraus calls in a run.
MaxOps == 2

Bit == {0, 1}

None == "None"

Range(s) == {s[i] : i \in 1..Len(s)}

RECURSIVE Pow2(_)
Pow2(n) == IF n = 0 THEN 1 ELSE 2 * Pow2(n - 1)

(***************************************************************************)
(* Complex arithmetic of the numeric backend.                              *)
(***************************************************************************)
Zero == <<0, 0>>
One == <<1, 0>>
I == <<0, 1>>
Neg(a) == <<0 - a[1], 0 - a[2]>>
Add(a, b) == <<a[1] + b[1], a[2] + b[2]>>
Mul(a, b) == <<a[1] * b[1] - a[2] * b[2], a[1] * b[2] + a[2] * b[1]>>
Conj(a) == <<a[1], 0 - a[2]>>

(***************************************************************************)
(* Arrays.  A tensor of rank r is a function on [1..r -> Bit]; a matrix    *)
(* is a function on rows with functions on columns.  reshape keeps the     *)
(* row-major flat order of the elements.                                   *)
(***************************************************************************)
Index(r) == [1..r -> Bit]

\* The row-major flat position of multi-index s (first axis most significant).
RECURSIVE FlatIndex(_)
FlatIndex(s) ==
  IF Len(s) = 0 THEN 0 ELSE 2 * FlatIndex(SubSeq(s, 1, Len(s) - 1)) + s[Len(s)]

\* The multi-index of rank r at flat position f.
Unflat(f, r) == [p \in 1..r |-> (f \div Pow2(r - p)) % 2]

\* The array f with every element computed (arrays are values, not thunks).
Array(f) == IF f = f THEN f ELSE f

\* A tensor of rank r given elementwise.
Tabulate(r, F(_)) == Array([s \in Index(r) |-> F(s)])

\* backend.reshape(t, [2^n, 2^n]) of a rank-2n tensor.
ReshapeToMatrix(t, n) ==
  Array([i \in 0..(Pow2(n) - 1) |->
           [j \in 0..(Pow2(n) - 1) |-> t[Unflat(i * Pow2(n) + j, 2 * n)]]])

\* backend.reshape(m, [2 for _ in range(2 * n)]) of a 2^n x 2^n matrix.
ReshapeToTensor(m, n) ==
  LET F(s) == m[FlatIndex(s) \div Pow2(n)][FlatIndex(s) % Pow2(n)]
  IN  Tabulate(2 * n, F)

\* reduce(add, ...) of two matrices of one shape.
MatAdd(a, b) ==
  Array([i \in DOMAIN a |-> [j \in DOMAIN a[i] |-> Add(a[i][j], b[i][j])]])

\* backend.trace
RECURSIVE TraceUpTo(_, _)
TraceUpTo(m, i) == IF i < 0 THEN Zero ELSE Add(m[i][i], TraceUpTo(m, i - 1))
Trace(m) == TraceUpTo(m, Cardinality(DOMAIN m) - 1)

ConjTensor(t) == Array([s \in DOMAIN t |-> Conj(t[s])])

\* A node: tn.Node / gates.Gate of a tensor, with the given edge identities.
Node(t, es) == [tensor |-> t, edges |-> es]

Rank(node) == Len(node.edges)

\* Edge identities first .. first + r - 1, the edges of a newly made rank-r node.
FreshEdges(first, r) == [a \in 1..r |-> first + a - 1]

(***************************************************************************)
(* The contraction engine: given nodes and an output edge order it returns *)
(* one tensor whose axes are the output edges, every other edge summed     *)
(* over.  Nodes are absorbed one at a time into an accumulator that holds  *)
(* the open edges seen so far and a value for each assignment of them.     *)
(***************************************************************************)
Entry(node, a) == node.tensor[[p \in 1..Rank(node) |-> a[node.edges[p]]]]

Restrict(a, S) == [e \in S |-> a[e]]

\* The sum, over the assignments of the edges todo, of the accumulator's
\* value times the node's entry; a assigns every other edge involved.
RECURSIVE SumClosed(_, _, _, _)
SumClosed(acc, node, a, todo) ==
  IF todo = {}
  THEN Mul(acc.val[Restrict(a, acc.open)], Entry(node, a))
  ELSE LET e == CHOOSE x \in todo : TRUE
       IN  Add(SumClosed(acc, node, (e :> 0) @@ a, todo \ {e}),
               SumClosed(acc, node, (e :> 1) @@ a, todo \ {e}))

\* The edges that absorbing the node closes: those it shares with the open
\* edges, and those that join two of its own axes.
ClosedEdges(acc, node) ==
  {e \in Range(node.edges) :
     e \in acc.open \/ Cardinality({p \in 1..Rank(node) : node.edges[p] = e}) > 1}

AbsorbOpen(acc, node, closed, open) ==
  [open |-> open, val |-> Array([a \in [open -> Bit] |-> SumClosed(acc, node, a, closed)])]

AbsorbClosing(acc, node, closed) ==
  AbsorbOpen(acc, node, closed, (acc.open \cup Range(node.edges)) \ closed)

Absorb(acc, node) == AbsorbClosing(acc, node, ClosedEdges(acc, node))

RECURSIVE AbsorbAll(_, _, _)
AbsorbAll(acc, nodes, i) ==
  IF i > Len(nodes) THEN acc ELSE AbsorbAll(Absorb(acc, nodes[i]), nodes, i + 1)

\* The accumulator of no node: the scalar 1.
Scalar == [open |-> {}, val |-> (<<>> :> One)]

\* The position of edge e in the edge order.
PosOf(order, e) == CHOOSE p \in 1..Len(order) : order[p] = e

\* The node of an accumulator, its axes in the given edge order.
Reorder(acc, order) ==
  LET F(s) == acc.val[[e \in acc.open |-> s[PosOf(order, e)]]]
  IN  Node(Tabulate(Len(order), F), order)

\* contractor(nodes, output_edge_order=order): the contracted node.
contractor(nodes, order) == Reorder(AbsorbAll(Scalar, nodes, 1), order)

(***************************************************************************)
(* Inputs of the calls: gate, Kraus and observable matrices from the gate  *)
(* and channel catalogs, turned into tensors as gates.Gate does.           *)
(***************************************************************************)
GateX == <<<<Zero, One>>, <<One, Zero>>>>
GateY == <<<<Zero, Neg(I)>>, <<I, Zero>>>>
GateZ == <<<<One, Zero>>, <<Zero, Neg(One)>>>>
GateHH == <<<<One, One>>, <<One, Neg(One)>>>>
GateP0 == <<<<One, Zero>>, <<Zero, Zero>>>>
GateP1 == <<<<Zero, Zero>>, <<Zero, One>>>>
GateCNOT == <<<<One, Zero, Zero, Zero>>, <<Zero, One, Zero, Zero>>,
              <<Zero, Zero, Zero, One>>, <<Zero, Zero, One, Zero>>>>
GateYX == <<<<Zero, Zero, Zero, Neg(I)>>, <<Zero, Zero, Neg(I), Zero>>,
            <<Zero, I, Zero, Zero>>, <<I, Zero, Zero, Zero>>>>

\* The rank-2k tensor of a 2^k x 2^k matrix: output legs first, then input legs.
GateTensor(M, k) ==
  LET F(s) == M[FlatIndex(SubSeq(s, 1, k)) + 1][FlatIndex(SubSeq(s, k + 1, 2 * k)) + 1]
  IN  Tabulate(2 * k, F)

TX == GateTensor(GateX, 1)
TY == GateTensor(GateY, 1)
TZ == GateTensor(GateZ, 1)
THH == GateTensor(GateHH, 1)
TP0 == GateTensor(GateP0, 1)
TP1 == GateTensor(GateP1, 1)
TCNOT == GateTensor(GateCNOT, 2)
TYX == GateTensor(GateYX, 2)

TensorRank(t) == Len(CHOOSE s \in DOMAIN t : TRUE)

(***************************************************************************)
(* The circuit object: a record of the fields of a DMCircuit instance.     *)
(* state_tensor is <<>> when the attribute is absent or None, <<t>> when   *)
(* it holds the contracted node t.                                         *)
(***************************************************************************)
NoTensor == <<>>

Circuit(n, ns, rf, lf, st) ==
  [nqubits |-> n, nodes |-> ns, rfront |-> rf, lfront |-> lf, state_tensor |-> st]

RECURSIVE SeqMax(_)
SeqMax(s) ==
  IF Len(s) = 0 THEN 0
  ELSE LET m == SeqMax(Tail(s)) IN IF Head(s) > m THEN Head(s) ELSE m

RECURSIVE AllEdges(_)
AllEdges(ns) == IF Len(ns) = 0 THEN <<>> ELSE Head(ns).edges \o AllEdges(Tail(ns))

\* The largest edge identity held by the circuit's network and fronts: every
\* edge object made after it gets a larger one.
MaxEdge(c) == SeqMax(AllEdges(c.nodes) \o c.rfront \o c.lfront)

\* DMCircuit._copy: tn.copy of the nodes (conjugated when conj), the copies in
\* the order of the originals, and the copies of the dangling edges (of every
\* edge of every node when no dangling list is given).  The copy of edge e is
\* edge e + base.
copy(ns, dangling, conj, base) ==
  LET newnodes == [i \in 1..Len(ns) |->
                     Node(IF conj THEN ConjTensor(ns[i].tensor) ELSE ns[i].tensor,
                          [a \in 1..Rank(ns[i]) |-> ns[i].edges[a] + base])]
      d        == IF Len(dangling) = 0 THEN AllEdges(ns) ELSE dangling
  IN  [nodes |-> newnodes, front |-> [p \in 1..Len(d) |-> d[p] + base]]

\* int(np.log(N) / np.log(2)) for N >= 1
RECURSIVE Log2(_)
Log2(N) == IF N < 2 THEN 0 ELSE 1 + Log2(N \div 2)

\* DMCircuit.__init__ without inputs: |0...0><0...0|
InitZero(n) ==
  LET nodes == [x \in 1..n |-> Node((<<0>> :> One) @@ (<<1>> :> Zero), <<x>>)]
      rf    == [x \in 1..n |-> nodes[x].edges[1]]
      l     == copy(nodes, rf, TRUE, n)
  IN  Circuit(n, l.nodes \o nodes, rf, l.front, NoTensor)

\* DMCircuit.__init__ with inputs: a state vector (a flat sequence of 2^n numbers)
InitInputs(n, inputs) ==
  LET F(s)   == inputs[FlatIndex(s) + 1]
      node   == Node(Tabulate(Log2(Len(inputs)), F), FreshEdges(1, Log2(Len(inputs))))
      rf     == [x \in 1..n |-> node.edges[x]]
      l      == copy(<<node>>, rf, TRUE, n)
  IN  Circuit(n, l.nodes \o <<node>>, rf, l.front, NoTensor)

\* DMCircuit.__init__ with dminputs: a density matrix (a flat sequence of 4^n numbers)
InitDminputs(n, dminputs) ==
  LET F(s)   == dminputs[FlatIndex(s) + 1]
      node   == Node(Tabulate(2 * n, F), FreshEdges(1, 2 * n))
  IN  Circuit(n, <<node>>, [x \in 1..n |-> node.edges[x]],
              [x \in 1..n |-> node.edges[x + n]], NoTensor)

\* Faulty variant of copied_circuit: the halves of the copied fronts taken as if the
\* copy had been made in the order rfront, lfront.
copied_circuit_swapped(n, r) ==
  Circuit(n, r.nodes, SubSeq(r.front, 1, n), SubSeq(r.front, n + 1, 2 * n), NoTensor)

\* newDMCircuit of _copy_DMCircuit: the object holding the copy r, which was
\* made with the fronts in the order lfront, rfront.
copied_circuit(n, r) ==
  Circuit(n, r.nodes, SubSeq(r.front, n + 1, 2 * n), SubSeq(r.front, 1, n), NoTensor)

\* DMCircuit._copy_DMCircuit: an independent copy of the network; the new
\* object has no state_tensor attribute.
copy_DMCircuit(c) ==
  copied_circuit(c.nqubits, copy(c.nodes, c.lfront \o c.rfront, FALSE, MaxEdge(c)))

\* t = getattr(self, "state_tensor", None) if reuse else None
memoized(c, reuse) == IF reuse THEN c.state_tensor ELSE NoTensor

\* t = contractor(nodes, output_edge_order=d_edges) on the copy cp
contract_copy(cp) == contractor(cp.nodes, cp.front)

\* setattr(self, "state_tensor", t)
memoize(c, t) == [c |-> [c EXCEPT !.state_tensor = <<t>>], t |-> t]

\* The first half of _copy_dm_tensor: the node t and the circuit that holds it.
dm_tensor(c, conj, memo) ==
  IF memo = NoTensor
  THEN memoize(c, contract_copy(copy(c.nodes, c.rfront \o c.lfront, conj, MaxEdge(c))))
  ELSE [c |-> c, t |-> memo[1]]

\* The second half of _copy_dm_tensor: tn.copy([t], conjugate=conj)
dm_copy(c, t, conj) ==
  [c |-> c, nodes |-> copy(<<t>>, t.edges, conj, SeqMax(t.edges)).nodes]

dm_copy_of(ct, conj) == dm_copy(ct.c, ct.t, conj)

\* DMCircuit._copy_dm_tensor: the circuit and the copied node.
copy_dm_tensor(c, conj, reuse) == dm_copy_of(dm_tensor(c, conj, memoized(c, reuse)), conj)

\* DMCircuit._contract: the network contracted in place into one node.
contract(c) ==
  [c EXCEPT !.nodes = <<contractor(c.nodes, c.rfront \o c.lfront)>>]

\* DMCircuit.check_density_matrix: np.allclose(trace, 1.0, atol=1e-5), exact
\* on Gaussian integers.
check_density_matrix(dm) == Trace(dm) = One

dm_checked(c, dm, check) ==
  [c |-> c, value |-> dm,
   err |-> IF check /\ ~check_density_matrix(dm) THEN "AssertionError" ELSE None]

dm_reshaped(r, check) ==
  dm_checked(r.c, ReshapeToMatrix(r.nodes[1].tensor, r.c.nqubits), check)

\* DMCircuit.densitymatrix: the circuit, the matrix and the error raised.
densitymatrix(c, check, reuse) == dm_reshaped(copy_dm_tensor(c, FALSE, reuse), check)

\* a ^ b on an axis of a node: the axis is bound to edge e.
Connect(node, axis, e) == [node EXCEPT !.edges[axis + 1] = e]

Distinct(index) == Cardinality(Range(index)) = Len(index)

\* Faulty variant of gate_fronts: the left front takes the gate's edge, not lgate's.
gate_fronts_same_edge(st, ind, i, g, lg) ==
  [rfront |-> [st.rfront EXCEPT ![ind + 1] = g.edges[i + 1]],
   lfront |-> [st.lfront EXCEPT ![ind + 1] = g.edges[i + 1]],
   gate |-> g, lgate |-> lg]

\* One pass of the loop of apply_general_gate; g and lg are gate and lgate with
\* their input legs bound.
gate_fronts(st, ind, i, g, lg) ==
  [rfront |-> [st.rfront EXCEPT ![ind + 1] = g.edges[i + 1]],
   lfront |-> [st.lfront EXCEPT ![ind + 1] = lg.edges[i + 1]],
   gate |-> g, lgate |-> lg]

\* Faulty variant of gate_step: lgate's input leg is bound to the right front.
gate_step_right_twice(st, noe, ind, i) ==
  gate_fronts(st, ind, i, Connect(st.gate, i + noe, st.rfront[ind + 1]),
              Connect(st.lgate, i + noe, st.rfront[ind + 1]))

gate_step(st, noe, ind, i) ==
  gate_fronts(st, ind, i, Connect(st.gate, i + noe, st.rfront[ind + 1]),
              Connect(st.lgate, i + noe, st.lfront[ind + 1]))

\* The loop of apply_general_gate from position i on; st holds rfront, lfront,
\* gate and lgate.
RECURSIVE gate_loop(_, _, _)
gate_loop(st, index, i) ==
  IF i >= Len(index) THEN st
  ELSE gate_loop(gate_step(st, Len(index), index[i + 1], i), index, i + 1)

\* Faulty variant of gate_precondition: no assertion.
gate_precondition_none(index) == TRUE

\* The assertion of apply_general_gate.
gate_precondition(index) == Distinct(index)

\* The supplied gate as a node with edges of its own.
gate_node(c, gate) == Node(gate, FreshEdges(MaxEdge(c) + 1, TensorRank(gate)))

\* Faulty variant of gate_start: lgate copied without conjugation.
gate_start_no_conj(c, gnode) ==
  [rfront |-> c.rfront, lfront |-> c.lfront, gate |-> gnode,
   lgate |-> copy(<<gnode>>, <<>>, FALSE, Rank(gnode)).nodes[1]]

\* lgated, _ = self._copy([gate], conj=True); lgate = lgated[0]
gate_start(c, gnode) ==
  [rfront |-> c.rfront, lfront |-> c.lfront, gate |-> gnode,
   lgate |-> copy(<<gnode>>, <<>>, TRUE, Rank(gnode)).nodes[1]]

\* Faulty variant of gate_append: the memo is not cleared.
gate_append_keeps_memo(c, st) ==
  [c |-> [c EXCEPT !.rfront = st.rfront, !.lfront = st.lfront,
                   !.nodes = c.nodes \o <<st.gate, st.lgate>>],
   err |-> None, gate |-> st.gate]

\* The end of apply_general_gate: both nodes appended, the memo cleared.
gate_append(c, st) ==
  [c |-> [c EXCEPT !.rfront = st.rfront, !.lfront = st.lfront,
                   !.nodes = c.nodes \o <<st.gate, st.lgate>>,
                   !.state_tensor = NoTensor],
   err |-> None, gate |-> st.gate]

\* DMCircuit.apply_general_gate; gate is the supplied gate tensor.  Returns the
\* circuit, the error raised (None when the call completes) and the supplied
\* node as the call leaves it.
apply_general_gate(c, gate, index) ==
  IF ~gate_precondition(index)
  THEN [c |-> c, err |-> "AssertionError", gate |-> gate_node(c, gate)]
  ELSE gate_append(c, gate_loop(gate_start(c, gate_node(c, gate)), index, 0))

\* circuits.append(dd) in front of what the later branches give
kraus_cons(dd, rest) == [err |-> rest.err, circuits |-> <<dd>> \o rest.circuits]

\* The Kraus loop of apply_general_kraus from operator i on: each operator is
\* applied to a copy of the contracted circuit c and the branch is densified.
\* Returns the error that ended the loop, if any, and the branch matrices.
RECURSIVE kraus_loop(_, _, _, _)
kraus_branch(c, kraus, index, i, g) ==
  IF g.err # None THEN [err |-> g.err, circuits |-> <<>>]
  ELSE kraus_cons(densitymatrix(g.c, FALSE, TRUE).value, kraus_loop(c, kraus, index, i + 1))

kraus_loop(c, kraus, index, i) ==
  IF i > Len(kraus) \/ i > Len(index) THEN [err |-> None, circuits |-> <<>>]
  ELSE kraus_branch(c, kraus, index, i,
                    apply_general_gate(copy_DMCircuit(c), kraus[i], index[i]))

\* reduce(add, circuits) of a non-empty list
RECURSIVE SumMatrices(_)
SumMatrices(ms) ==
  IF Len(ms) = 1 THEN ms[1]
  ELSE MatAdd(SumMatrices(SubSeq(ms, 1, Len(ms) - 1)), ms[Len(ms)])

\* Faulty variant of kraus_precondition: no assertion.
kraus_precondition_none(kraus, index) == TRUE

\* The assertion of apply_general_kraus.
kraus_precondition(kraus, index) == Len(kraus) = Len(index) \/ Len(index) = 1

\* index = [index[0] for _ in range(len(kraus))] when one group is given
broadcast(kraus, index) ==
  IF Len(index) = 1 THEN [k \in 1..Len(kraus) |-> index[1]] ELSE index

\* The network of the one node that a completed channel leaves.  The node is
\* a new object: its edges are numbered from 1, nothing of the old network
\* being left.
kraus_network(n, node) ==
  Circuit(n, <<node>>, SubSeq(node.edges, 1, n), SubSeq(node.edges, n + 1, 2 * n), NoTensor)

\* Faulty variant of kraus_install: the memo is not cleared.
kraus_install_keeps_memo(c1, r) ==
  IF r.err # None THEN [c |-> c1, err |-> r.err]
  ELSE IF Len(r.circuits) = 0 THEN [c |-> c1, err |-> "TypeError"]
  ELSE [c |-> [kraus_network(c1.nqubits,
                             Node(ReshapeToTensor(SumMatrices(r.circuits), c1.nqubits),
                                  FreshEdges(1, 2 * c1.nqubits)))
                 EXCEPT !.state_tensor = c1.state_tensor],
        err |-> None]

\* The end of apply_general_kraus on the contracted circuit c1, r being what
\* the loop gave.
kraus_install(c1, r) ==
  IF r.err # None THEN [c |-> c1, err |-> r.err]
  ELSE IF Len(r.circuits) = 0 THEN [c |-> c1, err |-> "TypeError"]
  ELSE [c |-> kraus_network(c1.nqubits,
                            Node(ReshapeToTensor(SumMatrices(r.circuits), c1.nqubits),
                                 FreshEdges(1, 2 * c1.nqubits))),
        err |-> None]

kraus_branches(c1, kraus, index) == kraus_install(c1, kraus_loop(c1, kraus, index, 1))

\* DMCircuit.apply_general_kraus; kraus is the list of Kraus tensors, index the
\* list of index groups.
apply_general_kraus(c, kraus, index) ==
  IF ~kraus_precondition(kraus, index)
  THEN [c |-> c, err |-> "AssertionError"]
  ELSE kraus_branches(contract(c), kraus, broadcast(kraus, index))

\* Edge from merged into edge to in every node that holds it.
RenameEdge(ns, from, to) ==
  [i \in 1..Len(ns) |->
     [ns[i] EXCEPT !.edges = [a \in 1..Rank(ns[i]) |->
                                IF ns[i].edges[a] = from THEN to ELSE ns[i].edges[a]]]]

\* Faulty variant of occupy: the index is not recorded.
occupy_none(occupied, e) == occupied

\* occupied.add(e)
occupy(occupied, e) == occupied \cup {e}

\* The inner loop of expectation for one operator node op with indices index,
\* from leg j on.  st holds the error raised so far, the occupied set and op.
RECURSIVE expectation_legs(_, _, _, _, _)
expectation_legs(st, newdang, n, index, j) ==
  IF j >= Len(index) \/ st.err # None THEN st
  ELSE IF index[j + 1] \in st.occupied THEN [st EXCEPT !.err = "ValueError"]
  ELSE IF j + Len(index) >= Rank(st.op) THEN [st EXCEPT !.err = "IndexError"]
  ELSE expectation_legs(
         [err |-> None, occupied |-> occupy(st.occupied, index[j + 1]),
          op |-> Connect(Connect(st.op, j, newdang[index[j + 1] + n + 1]),
                         j + Len(index), newdang[index[j + 1] + 1])],
         newdang, n, index, j + 1)

\* nodes.append(op) after the inner loop gave legs
expectation_append(st, legs) ==
  [err |-> legs.err, occupied |-> legs.occupied, nodes |-> Append(st.nodes, legs.op),
   next |-> st.next + Rank(legs.op)]

\* The outer loop of expectation from operator o on.  st holds the error, the
\* occupied set, the node list and the next unused edge identity.
RECURSIVE expectation_ops(_, _, _, _, _)
expectation_ops(st, newdang, n, ops, o) ==
  IF o > Len(ops) \/ st.err # None THEN st
  ELSE expectation_ops(
         expectation_append(st,
           expectation_legs([err |-> None, occupied |-> st.occupied,
                             op |-> Node(ops[o].op,
                                         FreshEdges(st.next, TensorRank(ops[o].op)))],
                            newdang, n, ops[o].index, 0)),
         newdang, n, ops, o + 1)

\* for j in range(nqubits): if j not in occupied: newdang[j] ^ newdang[j + nqubits]
RECURSIVE close_trace(_, _, _, _, _)
close_trace(ns, newdang, n, occupied, j) ==
  IF j >= n THEN ns
  ELSE close_trace(IF j \in occupied THEN ns
                   ELSE RenameEdge(ns, newdang[j + n + 1], newdang[j + 1]),
                   newdang, n, occupied, j + 1)

\* contractor(nodes).tensor: a scalar when no edge is left dangling
expectation_value(c, acc) ==
  IF acc.open # {} THEN [c |-> c, err |-> "ValueError", value |-> Zero]
  ELSE [c |-> c, err |-> None, value |-> acc.val[<<>>]]

expectation_contract(c, cp, st) ==
  IF st.err # None THEN [c |-> c, err |-> st.err, value |-> Zero]
  ELSE expectation_value(c, AbsorbAll(Scalar,
                            close_trace(st.nodes, cp.front, c.nqubits, st.occupied, 0), 1))

expectation_copy(c, cp, ops) ==
  expectation_contract(c, cp,
    expectation_ops([err |-> None, occupied |-> {}, nodes |-> cp.nodes,
                     next |-> 2 * MaxEdge(c) + 1], cp.front, c.nqubits, ops, 1))

\* Faulty variant of expectation: the network is contracted in place, not copied.
expectation_in_place(c, ops) ==
  expectation_copy(contract(c),
                   copy(contract(c).nodes, c.rfront \o c.lfront, FALSE, MaxEdge(c)), ops)

\* DMCircuit.expectation; ops is a sequence of [op, index], op a tensor that the
\* caller supplies as a node with edges of its own.  Returns the circuit, the
\* error raised and the value.
expectation(c, ops) ==
  expectation_copy(c, copy(c.nodes, c.rfront \o c.lfront, FALSE, MaxEdge(c)), ops)

(***************************************************************************)
(* Input sets of the calls.                                                *)
(***************************************************************************)
\* The state vector (1, 0, ..., 0, i) of n qubits.
StateInput(n) ==
  [f \in 1..Pow2(n) |-> IF f = 1 THEN One ELSE IF f = Pow2(n) THEN I ELSE Zero]

\* The density matrix 1 + |0..0><1..1| * (-i) + |1..1><0..0| * i, flattened.
DmInput(n) ==
  LET D == Pow2(n)
  IN  [f \in 1..(D * D) |->
         LET r == (f - 1) \div D
             k == (f - 1) % D
         IN  IF r = k THEN One
             ELSE IF r = 0 /\ k = D - 1 THEN Neg(I)
             ELSE IF r = D - 1 /\ k = 0 THEN I ELSE Zero]

UnitaryGates == {TX, TY, TCNOT}
GateInputs == {TY, THH, TCNOT}

\* Every index tuple of the gate's length over the qubits 0..n-1, repeats included.
IndexInputs(n, k) == [1..k -> 0..(n - 1)]

KrausInputs(n) ==
  {[kraus |-> <<TP0, TP1, TY>>, index |-> <<<<q>>>>] : q \in 0..(n - 1)}
  \cup {[kraus |-> <<TP0, TP1>>, index |-> <<<<0>>, <<n - 1>>>>],
        [kraus |-> <<TP0, TP1, TY>>, index |-> <<<<0>>, <<n - 1>>>>],
        [kraus |-> <<TCNOT, TYX>>, index |-> <<<<0, n - 1>>>>],
        [kraus |-> <<TCNOT, TYX>>, index |-> <<<<n - 1, 0>>, <<n - 1, n - 1>>>>]}

ExpectationInputs(n) ==
  {<<>>,
   <<[op |-> TZ, index |-> <<0>>]>>,
   <<[op |-> TZ, index |-> <<0>>], [op |-> TX, index |-> <<n - 1>>]>>,
   <<[op |-> TZ, index |-> <<n - 1>>], [op |-> TY, index |-> <<n - 1>>]>>,
   <<[op |-> TYX, index |-> <<0, n - 1>>]>>,
   <<[op |-> TYX, index |-> <<n - 1, n - 1>>]>>,
   <<[op |-> TZ, index |-> <<0, n - 1>>]>>}

(***************************************************************************)
(* The state machine: one circuit object and the calls made on it.  call   *)
(* is the last call (its arguments, and whether a contraction was          *)
(* memoized when it was made), ret what it returned or raised, nops the    *)
(* number of gate and channel applications so far.                         *)
(***************************************************************************)
VARIABLES nqubits, nodes, rfront, lfront, state_tensor, call, ret, nops

vars == <<nqubits, nodes, rfront, lfront, state_tensor, call, ret, nops>>

\* The circuit object as a record.
Self == Circuit(nqubits, nodes, rfront, lfront, state_tensor)

\* Whether a contraction is memoized.
Memoized == state_tensor # NoTensor

\* The circuit object becomes c.
Becomes(c) ==
  /\ nqubits' = c.nqubits
  /\ nodes' = c.nodes
  /\ rfront' = c.rfront
  /\ lfront' = c.lfront
  /\ state_tensor' = c.state_tensor

Constructed(c, how) ==
  /\ nqubits = c.nqubits
  /\ nodes = c.nodes
  /\ rfront = c.rfront
  /\ lfront = c.lfront
  /\ state_tensor = c.state_tensor
  /\ call = [op |-> "__init__", how |-> how, memo |-> FALSE]
  /\ ret = [err |-> None]
  /\ nops = 0

Init ==
  \E n \in 1..MaxQubits :
    \/ Constructed(InitZero(n), "zero")
    \/ Constructed(InitInputs(n, StateInput(n)), "inputs")
    \/ Constructed(InitDminputs(n, DmInput(n)), "dminputs")

GateReturns(r, g, index) ==
  /\ Becomes(r.c)
  /\ call' = [op |-> "apply_general_gate", gate |-> g, index |-> index, memo |-> Memoized]
  /\ ret' = [err |-> r.err, gate |-> r.gate]

ApplyGate(gates) ==
  /\ nops < MaxOps
  /\ \E g \in gates : \E index \in IndexInputs(nqubits, TensorRank(g) \div 2) :
       GateReturns(apply_general_gate(Self, g, index), g, index)
  /\ nops' = nops + 1

ApplyGeneralGate == ApplyGate(GateInputs)

KrausReturns(r, k) ==
  /\ Becomes(r.c)
  /\ call' = [op |-> "apply_general_kraus", kraus |-> k.kraus, index |-> k.index,
              memo |-> Memoized]
  /\ ret' = [err |-> r.err]

ApplyGeneralKraus ==
  /\ nops < MaxOps
  /\ \E k \in KrausInputs(nqubits) :
       KrausReturns(apply_general_kraus(Self, k.kraus, k.index), k)
  /\ nops' = nops + 1

DensitymatrixReturns(r, check, reuse) ==
  /\ Becomes(r.c)
  /\ call' = [op |-> "densitymatrix", check |-> check, reuse |-> reuse, memo |-> Memoized]
  /\ ret' = [err |-> r.err, value |-> r.value]

Densitymatrix ==
  /\ \E check \in BOOLEAN : \E reuse \in BOOLEAN :
       DensitymatrixReturns(densitymatrix(Self, check, reuse), check, reuse)
  /\ UNCHANGED nops

ExpectationReturns(r, ops) ==
  /\ Becomes(r.c)
  /\ call' = [op |-> "expectation", ops |-> ops, memo |-> Memoized]
  /\ ret' = [err |-> r.err, value |-> r.value]

Expectation ==
  /\ \E ops \in ExpectationInputs(nqubits) :
       ExpectationReturns(expectation(Self, ops), ops)
  /\ UNCHANGED nops

Next == ApplyGeneralGate \/ ApplyGeneralKraus \/ Densitymatrix \/ Expectation

Spec == Init /\ [][Next]_vars

(***************************************************************************)
(* Unitary evolution of a fresh |0...0> circuit: only unitary gates are    *)
(* applied, and the density matrix is read.                                *)
(***************************************************************************)
InitUnitary == \E n \in 1..MaxQubits : Constructed(InitZero(n), "zero")

ApplyUnitaryGate == ApplyGate(UnitaryGates)

NextUnitary == ApplyUnitaryGate \/ Densitymatrix

SpecUnitary == InitUnitary /\ [][NextUnitary]_vars

(***************************************************************************)
(* Properties.                                                             *)
(***************************************************************************)
\* The fields of the circuit object.
circuit == <<nqubits, nodes, rfront, lfront, state_tensor>>

\* The full contraction of the current network in (right-front ++ left-front)
\* edge order.
FullContraction == contractor(nodes, rfront \o lfront).tensor

\* The number of node axes bound to edge e.
Endpoints(e) ==
  Cardinality({p \in 1..Len(AllEdges(nodes)) : AllEdges(nodes)[p] = e})

Completed == ret.err = None

\* C1: whenever a contraction is memoized it is the full contraction of the
\* current network in (right-front ++ left-front) order, and
\* densitymatrix(reuse=True) returns the matrix densitymatrix(reuse=False)
\* returns.
C1_ReuseEquivalence ==
  /\ Memoized => state_tensor[1].tensor = FullContraction
  /\ densitymatrix(Self, FALSE, TRUE).value = densitymatrix(Self, FALSE, FALSE).value

\* A densitymatrix(reuse=True) call was served from the memo, after a gate or
\* channel was applied.
C1_Witness ==
  /\ call.op = "densitymatrix" /\ call.reuse /\ call.memo
  /\ nops > 0 /\ Memoized

\* C2: every apply_general_gate and apply_general_kraus call that completes
\* leaves the memoized contraction cleared, so that the next densitymatrix
\* call returns the contraction of the network as it is now.
C2_MemoCleared ==
  (call.op \in {"apply_general_gate", "apply_general_kraus"} /\ Completed)
    => /\ ~Memoized
       /\ densitymatrix(Self, FALSE, TRUE).value
            = ReshapeToMatrix(FullContraction, nqubits)

\* A channel completed on a circuit that held a memoized contraction.
C2_Witness ==
  call.op = "apply_general_kraus" /\ Completed /\ call.memo

\* C3: expectation leaves the circuit as it was, whether it returns or
\* raises: nodes, fronts and memo are unchanged, and the fronts stay dangling.
C3_ExpectationFrame ==
  [][call'.op = "expectation"
       => /\ UNCHANGED circuit
          /\ \A q \in 1..nqubits' :
               Endpoints(rfront[q])' = 1 /\ Endpoints(lfront[q])' = 1]_vars

\* expectation raised on a circuit with gates applied and a contraction memoized.
C3_Witness ==
  call.op = "expectation" /\ ~Completed /\ Memoized /\ Len(nodes) > 2 * nqubits

\* C4: there are exactly nqubits right-front and nqubits left-front edges,
\* the 2 * nqubits edges are pairwise distinct, each is dangling, and no edge
\* of the network has more than two endpoints.
C4_FrontInvariant ==
  /\ Len(rfront) = nqubits /\ Len(lfront) = nqubits
  /\ Cardinality(Range(rfront \o lfront)) = 2 * nqubits
  /\ \A e \in Range(rfront \o lfront) : Endpoints(e) = 1
  /\ \A e \in Range(AllEdges(nodes)) : Endpoints(e) <= 2

\* Two gate or channel applications completed, the last a two-qubit gate.
C4_Witness ==
  /\ call.op = "apply_general_gate" /\ Completed /\ Len(call.index) = 2
  /\ nops = 2 /\ Len(nodes) > 2

\* C5: apply_general_gate with indices that are not pairwise distinct raises
\* an assertion error, changes nothing of the circuit, and leaves the supplied
\* gate node bound to no edge of the network.
C5_DuplicateIndexRejected ==
  [][(call'.op = "apply_general_gate" /\ ~Distinct(call'.index))
       => /\ ret'.err = "AssertionError"
          /\ UNCHANGED circuit
          /\ Range(ret'.gate.edges) \cap Range(AllEdges(nodes') \o rfront' \o lfront') = {}
          /\ Cardinality(Range(ret'.gate.edges)) = TensorRank(call'.gate)]_vars

\* A gate call with a repeated index was rejected while a contraction was memoized.
C5_Witness ==
  /\ call.op = "apply_general_gate" /\ ~Distinct(call.index)
  /\ ret.err = "AssertionError" /\ Memoized

\* Every operator of the call has rank 2 * len(indices).
RanksMatch(ops) ==
  \A o \in 1..Len(ops) : TensorRank(ops[o].op) = 2 * Len(ops[o].index)

\* Some qubit index is in the index lists of two operators of the call.
SharedIndex(ops) ==
  \E o1, o2 \in 1..Len(ops) :
    o1 # o2 /\ Range(ops[o1].index) \cap Range(ops[o2].index) # {}

\* Some qubit index occurs twice in the index list of one operator.
RepeatedIndex(ops) == \E o \in 1..Len(ops) : ~Distinct(ops[o].index)

\* C6 as stated: expectation raises when two operators share a qubit index,
\* and returns a value when the index lists are pairwise disjoint and every
\* operator has rank 2 * len(indices).
C6_Original ==
  call.op = "expectation"
    => /\ SharedIndex(call.ops) => ~Completed
       /\ (~SharedIndex(call.ops) /\ RanksMatch(call.ops)) => Completed

\* C6 amended: expectation raises when a qubit index occurs twice in the call,
\* in the lists of two operators or in the list of one, and returns a value
\* when no qubit index occurs twice and every operator has rank
\* 2 * len(indices).
C6_Amended ==
  call.op = "expectation"
    => /\ (SharedIndex(call.ops) \/ RepeatedIndex(call.ops)) => ~Completed
       /\ (~SharedIndex(call.ops) /\ ~RepeatedIndex(call.ops) /\ RanksMatch(call.ops))
            => Completed

\* expectation returned the value of two operators on two different qubits.
C6_Witness ==
  /\ call.op = "expectation" /\ Completed /\ Len(call.ops) = 2
  /\ ~SharedIndex(call.ops) /\ RanksMatch(call.ops)

\* C7: after any sequence of unitary gates on a fresh |0...0> circuit the trace
\* of the density matrix is 1: densitymatrix(check=True) does not raise.
C7_UnitaryTrace ==
  /\ densitymatrix(Self, TRUE, FALSE).err = None
  /\ call.op = "densitymatrix" => Completed

\* densitymatrix(check=True) returned after two unitary gates.
C7_Witness ==
  /\ call.op = "densitymatrix" /\ call.check /\ Completed
  /\ nops = 2 /\ Len(nodes) = 2 * nqubits + 4

\* C8: a gate call on pairwise distinct indices completes; it appends the gate
\* and its conjugate and nothing else; input leg j + k of each is bound to the
\* former front edge of qubit index[j] and output leg j is its new front edge;
\* the fronts of the other qubits are unchanged.
C8_GateWiring ==
  [][(call'.op = "apply_general_gate" /\ Distinct(call'.index))
       => LET k  == Len(call'.index)
              g  == nodes'[Len(nodes) + 1]
              lg == nodes'[Len(nodes) + 2]
          IN  /\ ret'.err = None
              /\ Len(nodes') = Len(nodes) + 2
              /\ SubSeq(nodes', 1, Len(nodes)) = nodes
              /\ g.tensor = call'.gate
              /\ lg.tensor = ConjTensor(call'.gate)
              /\ ret'.gate = g
              /\ \A j \in 0..(k - 1) :
                   LET q == call'.index[j + 1] + 1
                   IN  /\ g.edges[j + k + 1] = rfront[q]
                       /\ rfront'[q] = g.edges[j + 1]
                       /\ lg.edges[j + k + 1] = lfront[q]
                       /\ lfront'[q] = lg.edges[j + 1]
                       /\ g.edges[j + 1] \notin Range(AllEdges(nodes) \o rfront \o lfront)
                       /\ lg.edges[j + 1] \notin Range(AllEdges(nodes) \o rfront \o lfront)
              /\ \A q \in 1..nqubits :
                   (q - 1) \notin Range(call'.index)
                     => rfront'[q] = rfront[q] /\ lfront'[q] = lfront[q]
              /\ nqubits' = nqubits]_vars

\* A two-qubit gate was applied with its legs in the order (1, 0).
C8_Witness ==
  /\ call.op = "apply_general_gate" /\ Completed
  /\ call.index = <<1, 0>> /\ nops = 2

\* The matrix of the channel: the sum over the Kraus operators of the density
\* matrix of circuit c with that one operator applied as a gate.
ChannelMatrix(c, kraus, index) ==
  SumMatrices([k \in 1..Len(kraus) |->
                 densitymatrix(apply_general_gate(c, kraus[k], index[k]).c,
                               FALSE, FALSE).value])

\* C9: a completed channel leaves exactly one node of rank 2 * nqubits, its
\* first nqubits edges the right-front and its last nqubits the left-front,
\* whose value is the sum over the Kraus operators of the density matrix of
\* the pre-channel state with that one operator applied as a gate, a single
\* index group serving every operator.
C9_ChannelSum ==
  [][(call'.op = "apply_general_kraus" /\ ret'.err = None)
       => /\ Len(nodes') = 1
          /\ Rank(nodes'[1]) = 2 * nqubits
          /\ nodes'[1].edges = rfront' \o lfront'
          /\ Len(rfront') = nqubits
          /\ ReshapeToMatrix(nodes'[1].tensor, nqubits)
               = ChannelMatrix(Self, call'.kraus,
                               IF Len(call'.index) = 1
                               THEN [k \in 1..Len(call'.kraus) |-> call'.index[1]]
                               ELSE call'.index)]_vars

\* A three-operator channel with a single index group completed after a gate.
C9_Witness ==
  /\ call.op = "apply_general_kraus" /\ Completed
  /\ Len(call.kraus) = 3 /\ Len(call.index) = 1 /\ nops = 2

\* The number of index groups is neither the number of operators nor 1.
LengthMismatch(kraus, index) == Len(index) # Len(kraus) /\ Len(index) # 1

\* C10 as stated: a length mismatch raises an assertion error, and whenever
\* apply_general_kraus raises an assertion error the circuit is as before.
C10_Original ==
  [][call'.op = "apply_general_kraus"
       => /\ LengthMismatch(call'.kraus, call'.index) => ret'.err = "AssertionError"
          /\ ret'.err = "AssertionError" => UNCHANGED circuit]_vars

\* C10 amended: a length mismatch raises an assertion error and leaves the
\* circuit as before; an index group with a repeated qubit raises an assertion
\* error and leaves the fronts and the memo as before, the node set having
\* been replaced by the single node of the network's full contraction.
C10_Amended ==
  [][call'.op = "apply_general_kraus"
       => /\ LengthMismatch(call'.kraus, call'.index)
               => ret'.err = "AssertionError" /\ UNCHANGED circuit
          /\ (~LengthMismatch(call'.kraus, call'.index) /\ ret'.err = "AssertionError")
               => /\ UNCHANGED <<nqubits, rfront, lfront, state_tensor>>
                  /\ nodes' = <<contractor(nodes, rfront \o lfront)>>]_vars

\* A channel call was rejected for its length mismatch on an uncontracted network.
C10_Witness ==
  /\ call.op = "apply_general_kraus" /\ ret.err = "AssertionError"
  /\ LengthMismatch(call.kraus, call.index) /\ Len(nodes) > 1
====
